---- MODULE Spec2Model ----
(***************************************************************************)
(* Rule-list conversion (src/main.py): every link of links.txt is fetched, *)
(* parsed by one of two grammars, filtered against MAP_DICT, grouped by    *)
(* canonical kind, recursively sorted by sort_dict, written as JSON and    *)
(* handed to the external rule-set compiler.                               *)
(*                                                                         *)
(* Python strings are sequences of one-character strings, so that          *)
(* substring tests, regular-expression searches and the ordering used by   *)
(* sorted() are computed on characters.  Python objects that sort_dict     *)
(* walks are tagged records: Dict (pairs in insertion order), List, Str,   *)
(* Int.                                                                    *)
(***************************************************************************)
EXTENDS Integers, Sequences, FiniteSets, TLC

(* ------------------------------------------------------------------ *)
(* Bounds of the model.                                                 *)
(* ------------------------------------------------------------------ *)

\* Longest links.txt explored by Spec.
MaxLinks == 3

\* Longest list body (rows) explored by SpecRules.
MaxRows == 2

\* Longest payload or first line (items) explored by SpecRules.
MaxItems == 3

(* ------------------------------------------------------------------ *)
(* Python strings.                                                      *)
(* ------------------------------------------------------------------ *)

\* The characters that occur in the model, in code point order.
Alphabet ==
  <<" ","#","'","(",")","+",",","-",".","/","0","1","2","3","4","5","6","7","8","9",":","A","B","C","D","E","F","G","H","I","J","K","L","M","N","O","P","Q","R","S","T","U","V","W","X","Y","Z","_","a","b","c","d","e","f","g","h","i","j","k","l","m","n","o","p","q","r","s","t","u","v","w","x","y","z">>

\* Position of a character in code point order.
Ord == [c \in {Alphabet[i] : i \in DOMAIN Alphabet} |->
          CHOOSE i \in DOMAIN Alphabet : Alphabet[i] = c]

\* a < b on Python str: lexicographic on code points.
RECURSIVE StrLess(_, _)
StrLess(a, b) ==
  IF b = <<>> THEN FALSE
  ELSE IF a = <<>> THEN TRUE
  ELSE IF a[1] = b[1] THEN StrLess(Tail(a), Tail(b))
  ELSE Ord[a[1]] < Ord[b[1]]

\* sub in s
Contains(s, sub) ==
  \E i \in 0..(Len(s) - Len(sub)) : SubSeq(s, i + 1, i + Len(sub)) = sub

\* s.find(sub) as a 1-based position, 0 when absent.
Find(s, sub) ==
  LET hits == {i \in 1..(Len(s) - Len(sub) + 1) :
                 SubSeq(s, i, i + Len(sub) - 1) = sub}
  IN IF hits = {} THEN 0 ELSE CHOOSE i \in hits : \A j \in hits : i <= j

\* s.lstrip(chars)
RECURSIVE LStrip(_, _)
LStrip(s, chars) ==
  IF s # <<>> /\ s[1] \in chars THEN LStrip(Tail(s), chars) ELSE s

\* s.rstrip(chars)
RECURSIVE RStrip(_, _)
RStrip(s, chars) ==
  IF s # <<>> /\ s[Len(s)] \in chars
  THEN RStrip(SubSeq(s, 1, Len(s) - 1), chars) ELSE s

\* s.strip(chars)
StripChars(s, chars) == RStrip(LStrip(s, chars), chars)

\* s.strip(): surrounding whitespace removed.
Strip(s) == StripChars(s, {" "})

\* sep.join(parts)
RECURSIVE Join(_, _)
Join(parts, sep) ==
  IF parts = <<>> THEN <<>>
  ELSE IF Len(parts) = 1 THEN parts[1]
  ELSE parts[1] \o sep \o Join(Tail(parts), sep)

\* Concatenation of a sequence of sequences.
RECURSIVE Flatten(_)
Flatten(ss) == IF ss = <<>> THEN <<>> ELSE ss[1] \o Flatten(Tail(ss))

(* ------------------------------------------------------------------ *)
(* Python objects.                                                      *)
(* ------------------------------------------------------------------ *)

PyDict(pairs) == [t |-> "dict", v |-> pairs]
PyList(items) == [t |-> "list", v |-> items]
PyStr(chars) == [t |-> "str", v |-> chars]
PyInt(n) == [t |-> "int", v |-> n]

\* list(d.keys())
Keys(d) == [i \in DOMAIN d.v |-> d.v[i][1]]

\* d[k] for a key the dict holds.
Get(d, k) == d.v[CHOOSE i \in DOMAIN d.v : d.v[i][1] = k][2]

\* A missing cell of a DataFrame (NaN, None).
NaN == <<"NaN">>

s_nan == <<"n","a","n">>
s_AND == <<"A","N","D">>
s_hash == <<"#">>
s_comma == <<",">>
s_no_resolve == <<"n","o","-","r","e","s","o","l","v","e">>
s_IP_CIDR == <<"I","P","-","C","I","D","R">>
s_DOMAIN_SUFFIX == <<"D","O","M","A","I","N","-","S","U","F","F","I","X">>
s_DOMAIN == <<"D","O","M","A","I","N">>
s_type == <<"t","y","p","e">>
s_mode == <<"m","o","d","e">>
s_rules == <<"r","u","l","e","s">>
s_version == <<"v","e","r","s","i","o","n">>
s_logical == <<"l","o","g","i","c","a","l">>
s_and == <<"a","n","d">>

s_domain_suffix == <<"d","o","m","a","i","n","_","s","u","f","f","i","x">>
s_domain == <<"d","o","m","a","i","n">>
s_domain_keyword == <<"d","o","m","a","i","n","_","k","e","y","w","o","r","d">>
s_ip_cidr == <<"i","p","_","c","i","d","r">>
s_source_ip_cidr == <<"s","o","u","r","c","e","_","i","p","_","c","i","d","r">>
s_geoip == <<"g","e","o","i","p">>
s_port == <<"p","o","r","t">>
s_source_port == <<"s","o","u","r","c","e","_","p","o","r","t">>
s_domain_regex == <<"d","o","m","a","i","n","_","r","e","g","e","x">>

\* The synonym table, in the order the dict literal lists its keys.
MAP_DICT ==
  << <<<<"D","O","M","A","I","N","-","S","U","F","F","I","X">>, s_domain_suffix>>,
     <<<<"H","O","S","T","-","S","U","F","F","I","X">>, s_domain_suffix>>,
     <<<<"D","O","M","A","I","N">>, s_domain>>,
     <<<<"H","O","S","T">>, s_domain>>,
     <<<<"h","o","s","t">>, s_domain>>,
     <<<<"D","O","M","A","I","N","-","K","E","Y","W","O","R","D">>, s_domain_keyword>>,
     <<<<"H","O","S","T","-","K","E","Y","W","O","R","D">>, s_domain_keyword>>,
     <<<<"h","o","s","t","-","k","e","y","w","o","r","d">>, s_domain_keyword>>,
     <<<<"I","P","-","C","I","D","R">>, s_ip_cidr>>,
     <<<<"i","p","-","c","i","d","r">>, s_ip_cidr>>,
     <<<<"I","P","-","C","I","D","R","6">>, s_ip_cidr>>,
     <<<<"I","P","6","-","C","I","D","R">>, s_ip_cidr>>,
     <<<<"S","R","C","-","I","P","-","C","I","D","R">>, s_source_ip_cidr>>,
     <<<<"G","E","O","I","P">>, s_geoip>>,
     <<<<"D","S","T","-","P","O","R","T">>, s_port>>,
     <<<<"S","R","C","-","P","O","R","T">>, s_source_port>>,
     <<<<"U","R","L","-","R","E","G","E","X">>, s_domain_regex>>,
     <<<<"D","O","M","A","I","N","-","R","E","G","E","X">>, s_domain_regex>> >>

\* MAP_DICT.keys()
MapKeys == {MAP_DICT[i][1] : i \in DOMAIN MAP_DICT}

\* MAP_DICT[keyword]
MapGet(keyword) ==
  MAP_DICT[CHOOSE i \in DOMAIN MAP_DICT : MAP_DICT[i][1] = keyword][2]

(* ------------------------------------------------------------------ *)
(* sorted()                                                             *)
(* ------------------------------------------------------------------ *)

\* A sort that does not keep equal keys in their order: elements of equal
\* key come out in the reverse of their order in seq.
SortedUnstable(seq, keys) ==
  LET rank(i) == Cardinality({j \in DOMAIN seq :
                   \/ StrLess(keys[j], keys[i])
                   \/ keys[j] = keys[i] /\ j > i}) + 1
  IN [r \in DOMAIN seq |-> seq[CHOOSE i \in DOMAIN seq : rank(i) = r]]

\* sorted(seq, key=...), keys[i] being the key of seq[i]: ascending by key,
\* elements of equal key in the order they have in seq (sorted() is stable).
Sorted(seq, keys) ==
  LET rank(i) == Cardinality({j \in DOMAIN seq :
                   \/ StrLess(keys[j], keys[i])
                   \/ keys[j] = keys[i] /\ j < i}) + 1
  IN [r \in DOMAIN seq |-> seq[CHOOSE i \in DOMAIN seq : rank(i) = r]]

\* sorted(d.keys())[0]
FirstKey(d) ==
  LET ks == Keys(d)
  IN ks[CHOOSE i \in DOMAIN ks : \A j \in DOMAIN ks : ~StrLess(ks[j], ks[i])]

(* ------------------------------------------------------------------ *)
(* sort_dict                                                            *)
(* ------------------------------------------------------------------ *)

RECURSIVE sort_dict(_)

\* sort_dict without the recursion into the elements of a list of dicts:
\* the list is sorted, its elements are left as they are.
sort_dict_shallow(obj) ==
  IF obj.t = "dict"
  THEN LET items == Sorted(obj.v, Keys(obj))
       IN PyDict([i \in DOMAIN items |-> <<items[i][1], sort_dict(items[i][2])>>])
  ELSE IF obj.t = "list" /\ \A i \in DOMAIN obj.v : obj.v[i].t = "dict"
  THEN PyList(Sorted(obj.v, [i \in DOMAIN obj.v |-> FirstKey(obj.v[i])]))
  ELSE IF obj.t = "list"
  THEN LET xs == [i \in DOMAIN obj.v |-> sort_dict(obj.v[i])]
       IN PyList(Sorted(xs, [i \in DOMAIN xs |-> xs[i].v]))
  ELSE obj

\* Lines 124-132: a dict gets its keys sorted, a list of dicts is sorted by
\* each element's smallest key, any other list is sorted, all recursively.
sort_dict(obj) ==
  IF obj.t = "dict"
  THEN LET items == Sorted(obj.v, Keys(obj))
       IN PyDict([i \in DOMAIN items |-> <<items[i][1], sort_dict(items[i][2])>>])
  ELSE IF obj.t = "list" /\ \A i \in DOMAIN obj.v : obj.v[i].t = "dict"
  THEN LET xs == [i \in DOMAIN obj.v |-> sort_dict(obj.v[i])]
       IN PyList(Sorted(xs, [i \in DOMAIN xs |-> FirstKey(xs[i])]))
  ELSE IF obj.t = "list"
  THEN LET xs == [i \in DOMAIN obj.v |-> sort_dict(obj.v[i])]
       IN PyList(Sorted(xs, [i \in DOMAIN xs |-> xs[i].v]))
  ELSE obj

(* ------------------------------------------------------------------ *)
(* read_list_from_url                                                   *)
(* ------------------------------------------------------------------ *)

\* A DataFrame row: <<pattern, address, other, other2, other3>>.
Pattern(row) == row[1]
Address(row) == row[2]

\* row.values.astype(str)
AsStr(row) == [i \in DOMAIN row |-> IF row[i] = NaN THEN s_nan ELSE row[i]]

\* re.findall(r'\((.*?)\)', text): from each "(" the shortest stretch up to
\* the next ")", the scan resuming after that ")".
RECURSIVE FindAllParens(_)
FindAllParens(text) ==
  LET p == Find(text, <<"(">>)
  IN IF p = 0 THEN <<>>
     ELSE LET rest == SubSeq(text, p + 1, Len(text))
              q == Find(rest, <<")">>)
          IN IF q = 0 THEN <<>>
             ELSE <<SubSeq(rest, 1, q - 1)>>
                  \o FindAllParens(SubSeq(rest, q + 1, Len(rest)))

\* The inner loop over MAP_DICT.keys() for one component: every keyword
\* contained in the component and followed there by a comma appends a
\* clause holding the rest of the component (the loop has no break).
ComponentClauses(component) ==
  Flatten([k \in DOMAIN MAP_DICT |->
    LET keyword == MAP_DICT[k][1]
        at == Find(component, keyword \o s_comma)
    IN IF Contains(component, keyword) /\ at # 0
       THEN <<PyDict(<< <<MAP_DICT[k][2],
                        PyStr(SubSeq(component, at + Len(keyword) + 1,
                                   Len(component)))>> >>)>>
       ELSE <<>>])

\* The logical rule built from one AND row.
LogicalRule(row) ==
  LET pattern == Join(AsStr(row), s_comma)
      components == FindAllParens(pattern)
  IN PyDict(<< <<s_type, PyStr(s_logical)>>,
             <<s_mode, PyStr(s_and)>>,
             <<s_rules, PyList(Flatten([c \in DOMAIN components |->
                                ComponentClauses(components[c])]))>> >>)

\* read_list_from_url applied to the rows pd.read_csv returns:
\* <<df_filtered, rules>>.
read_list_from_url(csv) ==
  LET and_rows == SelectSeq(csv, LAMBDA r : Contains(Pattern(r), s_AND))
      rules == IF \E i \in DOMAIN csv : Pattern(csv[i]) = s_AND
               THEN [k \in DOMAIN and_rows |-> LogicalRule(and_rows[k])]
               ELSE <<>>
      filtered_rows == SelectSeq(csv, LAMBDA r : ~Contains(Pattern(r), s_AND))
  IN <<filtered_rows, rules>>

(* ------------------------------------------------------------------ *)
(* parse_and_convert_to_dataframe: the payload grammar                  *)
(* ------------------------------------------------------------------ *)

\* s.split(',', 1)
Split1(s) ==
  LET at == Find(s, s_comma)
  IN IF at = 0 THEN <<s>>
     ELSE <<SubSeq(s, 1, at - 1), SubSeq(s, at + 1, Len(s))>>

\* The literals of the model's inputs that ipaddress.IPv4Network accepts.
IPv4Networks ==
  { <<"1","9","2",".","1","6","8",".","1",".","0","/","2","4">>,
    <<"1",".","0",".","0",".","0","/","8">> }

\* The literals of the model's inputs that ipaddress.IPv6Network accepts.
IPv6Networks == { <<"2","0","0","1",":","d","b","8",":",":","1">> }

is_ipv4_or_ipv6(address) ==
  IF address \in IPv4Networks THEN "ipv4"
  ELSE IF address \in IPv6Networks THEN "ipv6"
  ELSE "None"

\* The row appended for one item of the payload (or one token of the first
\* line); the frame's columns are pattern, address, other, and the two
\* columns it lacks are left missing here.
yaml_row(item) ==
  LET stripped == StripChars(item, {"'"})
      inferred ==
        IF is_ipv4_or_ipv6(item) # "None" THEN <<s_IP_CIDR, stripped>>
        ELSE IF stripped # <<>> /\ stripped[1] \in {"+", "."}
        THEN <<s_DOMAIN_SUFFIX, LStrip(stripped, {"+", "."})>>
        ELSE <<s_DOMAIN, stripped>>
      pa == IF ~Contains(item, s_comma) THEN inferred ELSE Split1(item)
      address == IF pa[1] = s_IP_CIDR /\ Contains(pa[2], s_no_resolve)
                 THEN Split1(pa[2])[1] ELSE pa[2]
  IN <<Strip(pa[1]), Strip(address), NaN, NaN, NaN>>

\* The frame built from the items of a decoded body.
yaml_rows(items) == [k \in DOMAIN items |-> yaml_row(items[k])]

(* ------------------------------------------------------------------ *)
(* parse_list_file: filtering, grouping, assembling                     *)
(* ------------------------------------------------------------------ *)

\* df.drop_duplicates(): the first of each set of equal rows is kept.
RECURSIVE drop_duplicates(_)
drop_duplicates(df) ==
  IF df = <<>> THEN <<>>
  ELSE LET init == drop_duplicates(SubSeq(df, 1, Len(df) - 1))
           last == df[Len(df)]
       IN IF \E k \in DOMAIN init : init[k] = last THEN init
          ELSE Append(init, last)

\* Lines 144-147: comment rows and rows of unknown keyword dropped, equal
\* rows collapsed, then the keyword replaced by its canonical kind.
filter_rows(df) ==
  LET no_comment == SelectSeq(df, LAMBDA r : ~Contains(Pattern(r), s_hash))
      known == SelectSeq(no_comment, LAMBDA r : Pattern(r) \in MapKeys)
      unique == drop_duplicates(known)
  IN [k \in DOMAIN unique |-> [unique[k] EXCEPT ![1] = MapGet(@)]]

\* Group keys in the order of their first row (a groupby with sort=False).
GroupKeysFirstSeen(df) ==
  LET firsts == SelectSeq([k \in DOMAIN df |-> k],
                  LAMBDA k : \A j \in 1..(k - 1) : Pattern(df[j]) # Pattern(df[k]))
  IN [r \in DOMAIN firsts |-> Pattern(df[firsts[r]])]

\* The keys of df.groupby('pattern'): groupby sorts the group keys.
GroupKeys(df) ==
  LET kinds == {Pattern(df[k]) : k \in DOMAIN df}
  IN [r \in 1..Cardinality(kinds) |->
        CHOOSE kind \in kinds :
          Cardinality({other \in kinds : StrLess(other, kind)}) = r - 1]

\* df.groupby('pattern')['address'].apply(list) for one key.
GroupAddresses(df, kind) ==
  LET members == SelectSeq(df, LAMBDA r : Pattern(r) = kind)
  IN [k \in DOMAIN members |-> Address(members[k])]

\* address.strip() raises on a missing address (a float).
StripRaises(df) == \E k \in DOMAIN df : Address(df[k]) = NaN

\* set(domain_entries)
DomainSet(df) ==
  {Strip(Address(df[k])) : k \in {j \in DOMAIN df : Pattern(df[j]) = s_domain}}

\* The orders list(set(domain_entries)) may have.
DomainLists(df) ==
  LET entries == DomainSet(df)
      n == Cardinality(entries)
  IN {order \in [1..n -> entries] :
        \A a, b \in 1..n : a # b => order[a] # order[b]}

\* Lines 151-172: result_rules for the filtered frame and the logical
\* rules, domain_entries being the list made of the domain set.
result_rules_of(df, rules_list, domain_entries) ==
  LET keys == GroupKeys(df)
      others == SelectSeq(keys, LAMBDA kind : kind # s_domain)
      entry(kind) ==
        LET addresses == GroupAddresses(df, kind)
        IN PyDict(<< <<kind, PyList([k \in DOMAIN addresses |->
                                       PyStr(Strip(addresses[k]))])>> >>)
      flat == [k \in DOMAIN others |-> entry(others[k])]
      first == IF domain_entries # <<>>
               THEN <<PyDict(<< <<s_domain,
                         PyList([k \in DOMAIN domain_entries |->
                                   PyStr(domain_entries[k])])>> >>)>>
               ELSE <<>>
  IN PyDict(<< <<s_version, PyInt(1)>>,
               <<s_rules, PyList(first \o flat \o rules_list)>> >>)

(* ------------------------------------------------------------------ *)
(* The remote bodies of the model.                                      *)
(* ------------------------------------------------------------------ *)

\* DOMAIN,a.com
row_domain ==
  <<<<"D","O","M","A","I","N">>,
    <<"a",".","c","o","m">>,
    NaN,
    NaN,
    NaN>>

\* HOST,a.com
row_host ==
  <<<<"H","O","S","T">>,
    <<"a",".","c","o","m">>,
    NaN,
    NaN,
    NaN>>

\* DOMAIN-SUFFIX,a.com
row_suffix ==
  <<<<"D","O","M","A","I","N","-","S","U","F","F","I","X">>,
    <<"a",".","c","o","m">>,
    NaN,
    NaN,
    NaN>>

\* HOST-SUFFIX,a.com
row_host_suffix ==
  <<<<"H","O","S","T","-","S","U","F","F","I","X">>,
    <<"a",".","c","o","m">>,
    NaN,
    NaN,
    NaN>>

\* DOMAIN-SUFFIX, a.com
row_suffix_padded ==
  <<<<"D","O","M","A","I","N","-","S","U","F","F","I","X">>,
    <<" ","a",".","c","o","m">>,
    NaN,
    NaN,
    NaN>>

\* IP-CIDR,1.0.0.0/8,no-resolve
row_cidr ==
  <<<<"I","P","-","C","I","D","R">>,
    <<"1",".","0",".","0",".","0","/","8">>,
    <<"n","o","-","r","e","s","o","l","v","e">>,
    NaN,
    NaN>>

\* SRC-IP-CIDR,1.0.0.0/8
row_src_cidr ==
  <<<<"S","R","C","-","I","P","-","C","I","D","R">>,
    <<"1",".","0",".","0",".","0","/","8">>,
    NaN,
    NaN,
    NaN>>

\* USER-AGENT,curl
row_unmapped ==
  <<<<"U","S","E","R","-","A","G","E","N","T">>,
    <<"c","u","r","l">>,
    NaN,
    NaN,
    NaN>>

\* #DOMAIN,b.com
row_comment ==
  <<<<"#","D","O","M","A","I","N">>,
    <<"b",".","c","o","m">>,
    NaN,
    NaN,
    NaN>>

\* GEOIP
row_no_address ==
  <<<<"G","E","O","I","P">>,
    NaN,
    NaN,
    NaN,
    NaN>>

\* AND,((DOMAIN,foo.com),(GEOIP,CN))
row_and ==
  <<<<"A","N","D">>,
    <<"(","(","D","O","M","A","I","N">>,
    <<"f","o","o",".","c","o","m",")">>,
    <<"(","G","E","O","I","P">>,
    <<"C","N",")",")">>>>

\* AND,((GEOIP,CN),(DOMAIN,foo.com))
row_and_reversed ==
  <<<<"A","N","D">>,
    <<"(","(","G","E","O","I","P">>,
    <<"C","N",")">>,
    <<"(","D","O","M","A","I","N">>,
    <<"f","o","o",".","c","o","m",")",")">>>>

\* AND,((SRC-IP-CIDR,1.0.0.0/8),(DST-PORT,443))
row_and_src ==
  <<<<"A","N","D">>,
    <<"(","(","S","R","C","-","I","P","-","C","I","D","R">>,
    <<"1",".","0",".","0",".","0","/","8",")">>,
    <<"(","D","S","T","-","P","O","R","T">>,
    <<"4","4","3",")",")">>>>

\* #AND,((DOMAIN,b.com),(GEOIP,US))
row_and_comment ==
  <<<<"#","A","N","D">>,
    <<"(","(","D","O","M","A","I","N">>,
    <<"b",".","c","o","m",")">>,
    <<"(","G","E","O","I","P">>,
    <<"U","S",")",")">>>>

\* payload:
row_payload ==
  <<<<"p","a","y","l","o","a","d",":">>,
    NaN,
    NaN,
    NaN,
    NaN>>

\* +a.com
item_suffix == <<"+","a",".","c","o","m">>

\* 192.168.1.0/24
item_cidr == <<"1","9","2",".","1","6","8",".","1",".","0","/","2","4">>

\* DOMAIN-KEYWORD,ads
item_keyword == <<"D","O","M","A","I","N","-","K","E","Y","W","O","R","D",",","a","d","s">>

\* a.com
item_domain == <<"a",".","c","o","m">>

\* IP-CIDR,1.0.0.0/8,no-resolve
item_no_resolve == <<"I","P","-","C","I","D","R",",","1",".","0",".","0",".","0","/","8",",","n","o","-","r","e","s","o","l","v","e">>

\* '.b.com'
item_quoted == <<"'",".","b",".","c","o","m","'">>

\* DOMAIN,a.com
item_tok_domain == <<"D","O","M","A","I","N",",","a",".","c","o","m">>

\* DOMAIN-SUFFIX,b.com
item_tok_suffix == <<"D","O","M","A","I","N","-","S","U","F","F","I","X",",","b",".","c","o","m">>

\* The rows a list body may consist of.
CsvRows ==
  { row_domain, row_host, row_suffix, row_host_suffix, row_suffix_padded,
    row_cidr, row_src_cidr, row_unmapped, row_comment, row_no_address,
    row_and, row_and_reversed, row_and_src, row_and_comment }

\* The items a payload (or the tokens a first line) may consist of.
YamlItems ==
  { item_suffix, item_cidr, item_keyword, item_domain, item_no_resolve,
    item_quoted }

\* Sequences over S of length lo..hi.
SeqsOf(S, lo, hi) == UNION {[1..n -> S] : n \in lo..hi}

\* What yaml.safe_load returns: a mapping (its payload), a string (the
\* tokens of its first line) or anything else (a list, None).
YamlData(t, items) == [t |-> t, items |-> items]

\* What one link serves: the body as yaml.safe_load decodes it and as
\* pd.read_csv reads it.
Body(yaml, csv) == [yaml |-> yaml, csv |-> csv]

\* A link: the base name of its URL and its extension.
Link(base, ext) == [base |-> base, ext |-> ext]

link_yaml == Link("a", "yaml")
link_txt == Link("b", "txt")
link_list == Link("c", "list")

Links == {link_yaml, link_txt, link_list}

\* The bodies the links serve in Spec.
SampleRemote ==
  [l \in Links |->
     IF l = link_yaml
     THEN Body(YamlData("mapping", <<item_suffix, item_cidr, item_keyword>>),
               <<row_payload>>)
     ELSE IF l = link_txt
     THEN Body(YamlData("str", <<item_tok_domain, item_tok_suffix>>),
               <<row_domain, row_suffix>>)
     ELSE Body(YamlData("other", <<>>), <<row_and_reversed, row_src_cidr>>)]

\* The bodies explored by SpecRules: every list body up to MaxRows rows and
\* every payload or first line up to MaxItems items.
ListBodies ==
  {Body(YamlData("other", <<>>), csv) : csv \in SeqsOf(CsvRows, 1, MaxRows)}

YamlBodies ==
  {Body(YamlData("mapping", items), <<row_payload>>) :
     items \in SeqsOf(YamlItems, 1, MaxItems)}
  \cup {Body(YamlData("str", items), <<row_payload>>) :
          items \in SeqsOf(YamlItems, 1, MaxItems)}

(* ------------------------------------------------------------------ *)
(* The run: the loop over links and parse_list_file.                    *)
(* ------------------------------------------------------------------ *)

VARIABLES
  links,              \* the links read from links.txt
  remote,             \* the body each link of links serves
  i,                  \* position of the loop in links
  pc,                 \* where the run stands
  calls,              \* the positions parse_list_file was called for
  df,                 \* the frame of the link in hand
  rules,              \* the logical rules of the link in hand
  result_rules,       \* the document of the link in hand
  files,              \* the JSON document written for each link's base name
  srs,                \* the links whose rule set was compiled
  result_file_names,  \* what the loop collected
  log,                \* the failures the handler printed
  fetch_log,          \* every request made
  exits               \* every exit status of the compiler

vars == <<links, remote, i, pc, calls, df, rules, result_rules, files, srs,
          result_file_names, log, fetch_log, exits>>

\* The value parse_list_file returns when it falls through its handler.
None == <<"None">>

\* os.path.join(output_directory, base + ".json")
FileName(link) == <<link.base, "json">>

\* No document (yet).
NoDocument == [t |-> "none", v |-> <<>>]

\* Exit statuses of os.system: success, failure, command not found.
ExitCodes == {0, 1, 127}

InitRun ==
  /\ i = 1
  /\ pc = "loop"
  /\ calls = <<>>
  /\ df = <<>>
  /\ rules = <<>>
  /\ result_rules = NoDocument
  /\ files = [l \in Links |-> NoDocument]
  /\ srs = {}
  /\ result_file_names = <<>>
  /\ log = <<>>
  /\ fetch_log = <<>>
  /\ exits = <<>>

Init ==
  /\ links \in SeqsOf(Links, 1, MaxLinks)
  /\ remote = [k \in DOMAIN links |-> SampleRemote[links[k]]]
  /\ InitRun

InitRules ==
  /\ \E l \in {link_yaml, link_list} :
       /\ links = <<l>>
       /\ \E body \in (IF l = link_list THEN ListBodies ELSE YamlBodies) :
            remote = <<body>>
  /\ InitRun

\* An exception that leaves parse_list_file instead of being handled: the
\* run ends there.
ExceptReraised(e) ==
  /\ pc' = "crashed"
  /\ UNCHANGED <<i, result_file_names, log>>

\* Lines 185-187 and 202: the handler prints the link and the exception e,
\* parse_list_file returns None, the loop appends it and goes on.
Except(e) ==
  /\ log' = Append(log, [i |-> i, e |-> e])
  /\ result_file_names' = Append(result_file_names, None)
  /\ i' = i + 1
  /\ pc' = "loop"

\* Lines 200-201, 135-138, 90: the loop calls parse_list_file for the next
\* link, which picks the grammar by the extension.
StartLink ==
  /\ pc = "loop"
  /\ i <= Len(links)
  /\ calls' = Append(calls, i)
  /\ pc' = IF links[i].ext \in {"yaml", "txt"} THEN "read_yaml" ELSE "read_list"
  /\ df' = <<>>
  /\ rules' = <<>>
  /\ result_rules' = NoDocument
  /\ UNCHANGED <<links, remote, i, files, srs, result_file_names, log,
                 fetch_log, exits>>

\* Lines 91-118: read_yaml_from_url and the payload grammar; any exception
\* (the request's, or a decoded body that is neither mapping nor string)
\* falls back to read_list_from_url.
ReadYaml ==
  /\ pc = "read_yaml"
  /\ \E ok \in BOOLEAN :
       LET data == remote[i].yaml
       IN /\ fetch_log' = Append(fetch_log, [i |-> i, by |-> "requests.get", ok |-> ok])
          /\ IF ok /\ data.t # "other"
             THEN /\ df' = yaml_rows(data.items)
                  /\ pc' = "filter"
             ELSE /\ df' = df
                  /\ pc' = "read_list"
  /\ UNCHANGED <<links, remote, i, calls, rules, result_rules, files, srs,
                 result_file_names, log, exits>>

\* Lines 118/120 and 40-72: pd.read_csv fetches the link; its failure (or
\* an empty body) is an exception that reaches the handler.
ReadList ==
  /\ pc = "read_list"
  /\ \E ok \in BOOLEAN :
       LET csv == remote[i].csv
       IN /\ fetch_log' = Append(fetch_log, [i |-> i, by |-> "read_csv", ok |-> ok])
          /\ IF ok /\ csv # <<>>
             THEN /\ df' = read_list_from_url(csv)[1]
                  /\ rules' = read_list_from_url(csv)[2]
                  /\ pc' = "filter"
                  /\ UNCHANGED <<i, result_file_names, log>>
             ELSE /\ Except("read_csv")
                  /\ UNCHANGED <<df, rules>>
  /\ UNCHANGED <<links, remote, calls, result_rules, files, srs, exits>>

\* Lines 144-147.
Filter ==
  /\ pc = "filter"
  /\ df' = filter_rows(df)
  /\ pc' = "aggregate"
  /\ UNCHANGED <<links, remote, i, calls, rules, result_rules, files, srs,
                 result_file_names, log, fetch_log, exits>>

\* Lines 151-172: the document is assembled; a missing address raises.
Aggregate ==
  /\ pc = "aggregate"
  /\ IF StripRaises(df)
     THEN /\ Except("strip")
          /\ UNCHANGED result_rules
     ELSE /\ \E domain_entries \in DomainLists(df) :
               result_rules' = result_rules_of(df, rules, domain_entries)
          /\ pc' = "write"
          /\ UNCHANGED <<i, result_file_names, log>>
  /\ UNCHANGED <<links, remote, calls, df, rules, files, srs, fetch_log, exits>>

\* Lines 149, 175-179: the sorted document is written; a failure of the
\* file system raises.
Write ==
  /\ pc = "write"
  /\ \E ok \in BOOLEAN :
       IF ok
       THEN /\ files' = [files EXCEPT ![links[i]] = sort_dict(result_rules)]
            /\ pc' = "compile"
            /\ UNCHANGED <<i, result_file_names, log>>
       ELSE /\ Except("open")
            /\ UNCHANGED files
  /\ UNCHANGED <<links, remote, calls, df, rules, result_rules, srs,
                 fetch_log, exits>>

\* Lines 182-184 and 202: os.system runs the compiler, its exit status is
\* dropped, and the file name is returned and collected.
Compile ==
  /\ pc = "compile"
  /\ \E code \in ExitCodes :
       /\ exits' = Append(exits, [i |-> i, code |-> code])
       /\ srs' = IF code = 0 THEN srs \cup {links[i]} ELSE srs
  /\ result_file_names' = Append(result_file_names, FileName(links[i]))
  /\ i' = i + 1
  /\ pc' = "loop"
  /\ UNCHANGED <<links, remote, calls, df, rules, result_rules, files, log,
                 fetch_log>>

\* The loop has gone through links.
Finish ==
  /\ pc = "loop"
  /\ i > Len(links)
  /\ pc' = "done"
  /\ UNCHANGED <<links, remote, i, calls, df, rules, result_rules, files, srs,
                 result_file_names, log, fetch_log, exits>>

Next ==
  \/ StartLink
  \/ ReadYaml
  \/ ReadList
  \/ Filter
  \/ Aggregate
  \/ Write
  \/ Compile
  \/ Finish

\* The run over a links.txt of up to MaxLinks links serving SampleRemote.
Spec == Init /\ [][Next]_vars

\* The run over one link serving any body within MaxRows and MaxItems.
SpecRules == InitRules /\ [][Next]_vars

(* ------------------------------------------------------------------ *)
(* Reading documents.                                                   *)
(* ------------------------------------------------------------------ *)

\* The 9 canonical kinds.
Kinds == {MAP_DICT[k][2] : k \in DOMAIN MAP_DICT}

\* The entries of a document's "rules" array.
Entries(doc) == Get(doc, s_rules).v

IsLogical(entry) == \E k \in DOMAIN entry.v : entry.v[k][1] = s_type

\* The flat groups, and the logical rules, of a document, in its order.
FlatEntries(doc) == SelectSeq(Entries(doc), LAMBDA e : ~IsLogical(e))
LogicalEntries(doc) == SelectSeq(Entries(doc), LAMBDA e : IsLogical(e))

\* The kind and the values of a flat group.
GroupKind(entry) == entry.v[1][1]
GroupValues(entry) == [k \in DOMAIN entry.v[1][2].v |-> entry.v[1][2].v[k].v]

\* The clauses of a logical rule as <<kind, value>> pairs.
Clauses(entry) ==
  LET cs == Get(entry, s_rules).v
  IN [k \in DOMAIN cs |-> <<cs[k].v[1][1], cs[k].v[1][2].v>>]

\* The rows of seq in every order.
Reorderings(seq) ==
  {[k \in DOMAIN seq |-> seq[f[k]]] : f \in Permutations(DOMAIN seq)}

\* The documents parse_list_file may write for a list body: none when it
\* raises, else one for each order of the domain set.
ListDocuments(csv) ==
  LET parsed == read_list_from_url(csv)
      frame == filter_rows(parsed[1])
  IN IF StripRaises(frame) THEN {}
     ELSE {sort_dict(result_rules_of(frame, parsed[2], d)) : d \in DomainLists(frame)}

\* The link in hand is a list link whose document has just been written.
ListWritten == pc = "compile" /\ links[i].ext = "list"

\* A document has just been written for the link in hand.
Written == pc = "compile"

\* The document of the link in hand has just been assembled.
Assembled == pc = "write"

(* ------------------------------------------------------------------ *)
(* C1                                                                   *)
(* ------------------------------------------------------------------ *)

\* C1: the document written for a list body is the document that would be
\* written for the same rows in any other order.
OrderIndependence ==
  ListWritten =>
    \A permuted \in Reorderings(remote[i].csv) :
      ListDocuments(permuted) = {files[links[i]]}

(* ------------------------------------------------------------------ *)
(* C2                                                                   *)
(* ------------------------------------------------------------------ *)

\* The fetch that decides link k (pd.read_csv) failed.
FetchFailed(k) ==
  \E n \in DOMAIN fetch_log :
    fetch_log[n].i = k /\ fetch_log[n].by = "read_csv" /\ ~fetch_log[n].ok

\* The handler caught a failure of link k.
Caught(k) == \E n \in DOMAIN log : log[n].i = k

\* C2: no exception leaves parse_list_file; the loop calls it for the links
\* in order, once each; a link whose fetch failed has None recorded and a
\* link recorded by name has its document written and its compiler run;
\* every recorded None is a handled failure; and at the end of the run every
\* link has been called and has a result, whatever failed before it.
PerSourceIsolation ==
  /\ pc # "crashed"
  /\ calls = [k \in 1..Len(calls) |-> k]
  /\ Len(result_file_names) \in {Len(calls), Len(calls) - 1}
  /\ \A k \in DOMAIN result_file_names :
       /\ FetchFailed(k) => result_file_names[k] = None
       /\ result_file_names[k] = None <=> Caught(k)
       /\ result_file_names[k] # None =>
            /\ result_file_names[k] = FileName(links[k])
            /\ files[links[k]] # NoDocument
            /\ \E n \in DOMAIN exits : exits[n].i = k
  /\ pc = "done" =>
       /\ Len(calls) = Len(links)
       /\ Len(result_file_names) = Len(links)

\* The run of three links has ended: the first and the third succeeded, the
\* fetch of the second failed.
PerSourceIsolationWitness ==
  /\ pc = "done"
  /\ Len(links) = 3
  /\ FetchFailed(2)
  /\ result_file_names =
       <<FileName(links[1]), None, FileName(links[3])>>

(* ------------------------------------------------------------------ *)
(* C3                                                                   *)
(* ------------------------------------------------------------------ *)

\* C3: a link whose compiler exited non-zero has None recorded.
CompileFailureIsAbsent ==
  \A n \in DOMAIN exits :
    (exits[n].code # 0 /\ exits[n].i \in DOMAIN result_file_names)
      => result_file_names[exits[n].i] = None

(* ------------------------------------------------------------------ *)
(* C4                                                                   *)
(* ------------------------------------------------------------------ *)

\* The document with the entries of its "rules" array in every order.
Rearranged(doc) ==
  {PyDict(<< <<s_version, Get(doc, s_version)>>,
             <<s_rules, PyList(entries)>> >>) :
     entries \in Reorderings(Entries(doc))}

\* C4: sorting a sorted document changes nothing, for the assembled
\* document and for every rearrangement of its entries.
CanonicalizeIdempotent ==
  Assembled =>
    \A d \in Rearranged(result_rules) :
      LET once == sort_dict(d)
      IN sort_dict(once) = once

\* An assembled document that sort_dict changes, with two logical rules
\* that differ once sorted.
CanonicalizeIdempotentWitness ==
  /\ Assembled
  /\ sort_dict(result_rules) # result_rules
  /\ Len(LogicalEntries(result_rules)) = 2
  /\ sort_dict(LogicalEntries(result_rules)[1])
       # sort_dict(LogicalEntries(result_rules)[2])

(* ------------------------------------------------------------------ *)
(* C5                                                                   *)
(* ------------------------------------------------------------------ *)

\* A row that may contribute: no comment marker in its pattern.
NotComment(row) == ~Contains(Pattern(row), s_hash)

\* C5: in the document written for a list body every group key and clause
\* key is a canonical kind, every value of a flat group is the address of a
\* row of known keyword and without comment marker, and every logical rule
\* is the rule of an AND row without comment marker.
VocabularyClosure ==
  ListWritten =>
    LET doc == files[links[i]]
        csv == remote[i].csv
        flat == FlatEntries(doc)
        logical == LogicalEntries(doc)
    IN /\ \A k \in DOMAIN flat : GroupKind(flat[k]) \in Kinds
       /\ \A k \in DOMAIN logical :
            \A c \in DOMAIN Clauses(logical[k]) :
              Clauses(logical[k])[c][1] \in Kinds
       /\ \A k \in DOMAIN flat :
            \A v \in DOMAIN GroupValues(flat[k]) :
              \E r \in DOMAIN csv :
                /\ NotComment(csv[r])
                /\ Pattern(csv[r]) \in MapKeys
                /\ MapGet(Pattern(csv[r])) = GroupKind(flat[k])
                /\ Strip(Address(csv[r])) = GroupValues(flat[k])[v]
       /\ \A k \in DOMAIN logical :
            \E r \in DOMAIN csv :
              /\ NotComment(csv[r])
              /\ Contains(Pattern(csv[r]), s_AND)
              /\ logical[k] = sort_dict(LogicalRule(csv[r]))

(* ------------------------------------------------------------------ *)
(* C6                                                                   *)
(* ------------------------------------------------------------------ *)

\* The groups (KEYWORD,value) of an AND row, as <<KEYWORD, value>>: each
\* parenthesized stretch, its opening parentheses removed, cut at its first
\* comma.
RowGroups(row) ==
  LET components == FindAllParens(Join(AsStr(row), s_comma))
  IN [c \in DOMAIN components |-> Split1(LStrip(components[c], {"("}))]

\* The clauses the groups of a row stand for: one per group of known
\* keyword.
GroupClauses(row) ==
  LET known == SelectSeq(RowGroups(row),
                 LAMBDA g : Len(g) = 2 /\ g[1] \in MapKeys)
  IN [k \in DOMAIN known |-> <<MapGet(known[k][1]), known[k][2]>>]

\* The rows of a body whose pattern is AND.
AndRows(csv) == SelectSeq(csv, LAMBDA r : Pattern(r) = s_AND)

\* The list body of the link in hand has just been parsed.
ListParsed == pc = "filter" /\ links[i].ext = "list"

\* C6: the rule of every AND row has exactly one clause for each of its
\* groups of known keyword, the canonical kind with the group's value.
AndCombinatorParse ==
  ListParsed =>
    LET csv == remote[i].csv
    IN \A r \in DOMAIN csv :
         Pattern(csv[r]) = s_AND =>
           \E k \in DOMAIN rules :
             /\ rules[k] = LogicalRule(csv[r])
             /\ Clauses(rules[k]) = GroupClauses(csv[r])

(* ------------------------------------------------------------------ *)
(* C7                                                                   *)
(* ------------------------------------------------------------------ *)

\* The kinds of the flat groups of a document, in its order.
GroupKinds(doc) ==
  [k \in DOMAIN FlatEntries(doc) |-> GroupKind(FlatEntries(doc)[k])]

\* C7 as stated: the assembled document lists the domain group first and
\* the other groups in the order their kinds first occur in the frame.
FirstSeenGroupOrder ==
  Assembled =>
    LET seen == GroupKeysFirstSeen(df)
    IN GroupKinds(result_rules) =
         SelectSeq(seen, LAMBDA kind : kind = s_domain)
         \o SelectSeq(seen, LAMBDA kind : kind # s_domain)

\* C7 as amended: the assembled document lists one group for each kind of
\* the frame, in ascending order of the kinds' names (which puts the domain
\* group first), before the logical rules.
SortedGroupOrder ==
  Assembled =>
    LET kinds == GroupKinds(result_rules)
    IN /\ {kinds[k] : k \in DOMAIN kinds} = {Pattern(df[r]) : r \in DOMAIN df}
       /\ \A a, b \in DOMAIN kinds : a < b => StrLess(kinds[a], kinds[b])
       /\ Entries(result_rules) =
            FlatEntries(result_rules) \o LogicalEntries(result_rules)

\* The frame of the end-to-end example has been assembled: rows of kinds
\* domain_suffix, ip_cidr, domain_keyword in that order.
SortedGroupOrderWitness ==
  /\ Assembled
  /\ [r \in DOMAIN df |-> Pattern(df[r])] =
       <<s_domain_suffix, s_ip_cidr, s_domain_keyword>>

(* ------------------------------------------------------------------ *)
(* C8                                                                   *)
(* ------------------------------------------------------------------ *)

\* C8: no flat group of a written document holds a value twice.
UniqueGroupValues ==
  Written =>
    LET flat == FlatEntries(files[links[i]])
    IN \A k \in DOMAIN flat :
         \A a, b \in DOMAIN GroupValues(flat[k]) :
           a # b => GroupValues(flat[k])[a] # GroupValues(flat[k])[b]

(* ------------------------------------------------------------------ *)
(* C9                                                                   *)
(* ------------------------------------------------------------------ *)

\* C9 as stated: the clauses of each logical rule of the written document
\* are the parsed clauses in their order.
ClauseOrderPreserved ==
  Written =>
    LET logical == LogicalEntries(files[links[i]])
    IN /\ Len(logical) = Len(rules)
       /\ \A k \in DOMAIN logical : Clauses(logical[k]) = Clauses(rules[k])

\* C9 as amended: the clauses of each logical rule of the written document
\* are the parsed clauses in ascending order of their kinds, clauses of the
\* same kind in the order of the row.
ClausesSortedByKind ==
  Written =>
    LET logical == LogicalEntries(files[links[i]])
    IN /\ Len(logical) = Len(rules)
       /\ \A k \in DOMAIN logical :
            LET out == Clauses(logical[k])
                parsed == Clauses(rules[k])
            IN /\ Len(out) = Len(parsed)
               /\ \A a, b \in DOMAIN out : a < b => ~StrLess(out[b][1], out[a][1])
               /\ \A kind \in Kinds :
                    SelectSeq(out, LAMBDA c : c[1] = kind)
                      = SelectSeq(parsed, LAMBDA c : c[1] = kind)

\* A written document with a logical rule whose row lists its groups in
\* another order than the kinds' names.
ClausesSortedByKindWitness ==
  /\ Written
  /\ \E k \in DOMAIN rules :
       /\ Len(Clauses(rules[k])) = 2
       /\ StrLess(Clauses(rules[k])[2][1], Clauses(rules[k])[1][1])

(* ------------------------------------------------------------------ *)
(* C10                                                                  *)
(* ------------------------------------------------------------------ *)

\* C10: no link is fetched twice.
NoRetry ==
  \A a, b \in DOMAIN fetch_log :
    a # b => fetch_log[a].i # fetch_log[b].i

====
